---------------------------- MODULE Spec2Model ----------------------------
(***************************************************************************)
(* Model of src/proyeccion.py: the financial projection engine             *)
(* (calcular_proyeccion_financiera), the input validation, and the         *)
(* analytics of the dashboard script (break-even, sensitivity sweep, risk  *)
(* classification, export), run top to bottom as Streamlit runs it.        *)
(*                                                                         *)
(* A run of the script: the widget values are drawn in Init (or in Rerun),  *)
(* then validation, the main projection, the executive report, the         *)
(* break-even analysis, the sweep (one loop iteration per step), the risk  *)
(* analysis and the export follow in script order.  Tabs 2 and 3 and the   *)
(* charts only render df and are left out.                                 *)
(*                                                                         *)
(* Spec is one run from an empty st.cache_data store.  SpecCache is a      *)
(* session of up to MaxCorridas runs over a few configurations: the store  *)
(* outlives the runs, a rerun starts when the previous run has ended, and  *)
(* Expirar is the session left idle for longer than the ttl (every entry   *)
(* stored so far is dropped).  SpecParametroLibre is one run in which the  *)
(* sweep's parameter selection is also given a name that the selectbox     *)
(* does not offer.                                                         *)
(*                                                                         *)
(* The horizon slider offers 12..60 months; the engine treats every month  *)
(* alike, and the horizons explored here are 1..MaxMeses.                  *)
(*                                                                         *)
(* Arithmetic is exact (the float64 rounding of sums and products is not   *)
(* modelled).  Units of the integers used here:                            *)
(*   precio_premium, precio_basica, costo_variable : tenths of a dollar    *)
(*   sueldos, costos_fijos, inversion_inicial      : dollars               *)
(*   crecimiento_mensual                           : tenths (0.1 = 1)      *)
(*   tasa_impuestos                                : percent               *)
(*   every money column of the ledger              : thousandths of a $    *)
(*   Margen_Bruto, Margen_Neto, ROI_Acumulado      : <<num, den>> ratios   *)
(***************************************************************************)
EXTENDS Integers, Sequences, FiniteSets, TLC

\* Longest horizon explored (`meses`).
MaxMeses == 3

\* Most runs of the script in one session (SpecCache).
MaxCorridas == 2

\* Samples of one sensitivity sweep: np.linspace(a, b, 11).
NumSamples == 11

\* Units (see the header).
GrowthDen == 2 * 5
Milli == 10 * 100
MilliPerTenth == 10 * 10

-----------------------------------------------------------------------------
(* Helpers standing for Python / numpy / pandas primitives *)

RECURSIVE Pow(_, _)
Pow(b, e) == IF e = 0 THEN 1 ELSE b * Pow(b, e - 1)

\* np.round of the exact quotient num/den (den > 0, num >= 0): to nearest,
\* ties to the even integer.
RoundHalfEven(num, den) ==
    LET q == num \div den
        r == num % den
    IN  IF 2 * r < den THEN q
        ELSE IF 2 * r > den THEN q + 1
        ELSE IF q % 2 = 0 THEN q ELSE q + 1

RECURSIVE SumSeq(_)
SumSeq(s) == IF s = <<>> THEN 0 ELSE Head(s) + SumSeq(Tail(s))

\* range(a, b) as a sequence: a, a+1, ..., b-1.
RangeSeq(a, b) == [i \in 1..(IF b > a THEN b - a ELSE 0) |-> a + i - 1]

\* A ratio column's value a / b (b # 0), kept exact.
Ratio(a, b) == <<a, b>>
\* The literal 0 that np.where substitutes.
RatioZero == <<0, 1>>

-----------------------------------------------------------------------------
(* The team of the personnel-cost loop: (rol, cantidad) pairs *)

Equipo ==
    << <<"CEO", 1>>, <<"CTO", 1>>, <<"Dev Fullstack", 2>>,
       <<"Disenador UX/UI", 1>>, <<"Growth Marketer", 1>>, <<"Soporte", 1>>,
       <<"Sales Manager", 2>>, <<"CFO", 1>> >>

Roles == {Equipo[i][1] : i \in 1..Len(Equipo)}

\* gracia.get(rol, 0)
GraciaGet(gracia, rol) == IF rol \in DOMAIN gracia THEN gracia[rol] ELSE 0

-----------------------------------------------------------------------------
(* calcular_proyeccion_financiera, column by column *)

\* df = pd.DataFrame(index=range(1, meses + 1))
IndiceCorto(meses) == RangeSeq(1, meses)
Indice(meses) == RangeSeq(1, meses + 1)

\* The growth factor applied with the wrong sign.
UsuariosDecrece(inicio, crecimiento, mes) ==
    RoundHalfEven(inicio * Pow(GrowthDen - crecimiento, mes - 1),
                  Pow(GrowthDen, mes - 1))
\* Growth compounded month by month on the rounded count of the month before.
RECURSIVE UsuariosCompuesto(_, _, _)
UsuariosCompuesto(inicio, crecimiento, mes) ==
    IF mes = 1 THEN inicio
    ELSE RoundHalfEven(UsuariosCompuesto(inicio, crecimiento, mes - 1)
                           * (GrowthDen + crecimiento), GrowthDen)
\* np.round(inicio * (1 + crecimiento_mensual) ** (mes - 1)).astype(int)
Usuarios(inicio, crecimiento, mes) ==
    RoundHalfEven(inicio * Pow(GrowthDen + crecimiento, mes - 1),
                  Pow(GrowthDen, mes - 1))

\* sueldos[rol] * cantidad if mes > gracia.get(rol, 0) else 0
AporteRolInclusive(sueldos, gracia, par, mes) ==
    IF mes >= GraciaGet(gracia, par[1]) THEN sueldos[par[1]] * par[2] * Milli ELSE 0
AporteRol(sueldos, gracia, par, mes) ==
    IF mes > GraciaGet(gracia, par[1]) THEN sueldos[par[1]] * par[2] * Milli ELSE 0

\* costo_mes = sum([... for rol, cantidad in [...]])
CostoMes(sueldos, gracia, mes) ==
    SumSeq([i \in 1..Len(Equipo) |-> AporteRol(sueldos, gracia, Equipo[i], mes)])

\* np.where(Utilidad_Bruta > 0, Utilidad_Bruta * (tasa_impuestos / 100), 0)
ImpuestosSiempre(bruta, tasa) == (bruta * tasa) \div 100
Impuestos(bruta, tasa) == IF bruta > 0 THEN (bruta * tasa) \div 100 ELSE 0

\* np.where(Ingresos_Totales > 0, x / Ingresos_Totales, 0)
Margen(x, ingresos) == IF ingresos > 0 THEN Ratio(x, ingresos) ELSE RatioZero

\* np.where(inversion_inicial > 0, (Efectivo_Acumulado - inv) / inv, 0)
ROISinGuarda(efectivo, inversion) ==
    Ratio(efectivo - inversion * Milli, inversion * Milli)
ROI(efectivo, inversion) ==
    IF inversion > 0 THEN Ratio(efectivo - inversion * Milli, inversion * Milli)
    ELSE RatioZero

\* df['Costos_Fijos'] = df['Costos_Personal'] + costos_fijos['total']
CostosFijosMesSinPersonal(personal, costos_fijos) == costos_fijos.total * Milli
CostosFijosMes(personal, costos_fijos) == personal + costos_fijos.total * Milli

\* df['Costos_Totales'] = df['Costos_Fijos'] + df['Costos_Variables']
CostosTotalesSoloFijos(fijos, variables) == fijos
CostosTotales(fijos, variables) == fijos + variables

\* The columns of month `mes` that do not depend on other months.
FilaBase(p, mes) ==
    LET up   == Usuarios(p.usuarios_premium_inicio, p.crecimiento_mensual, mes)
        ub   == Usuarios(p.usuarios_basica_inicio, p.crecimiento_mensual, mes)
        tot  == up + ub
        ip   == up * p.precio_premium * MilliPerTenth
        ib   == ub * p.precio_basica * MilliPerTenth
        it   == ip + ib
        cp   == CostoMes(p.sueldos, p.gracia, mes)
        cf   == CostosFijosMes(cp, p.costos_fijos)
        cv   == tot * p.costo_variable * MilliPerTenth
        ct   == CostosTotales(cf, cv)
        bru  == it - ct
        imp  == Impuestos(bru, p.tasa_impuestos)
        neta == bru - imp
    IN  [Mes |-> mes,
         Usuarios_Premium |-> up, Usuarios_Basicos |-> ub, Total_Usuarios |-> tot,
         Ingresos_Premium |-> ip, Ingresos_Basicos |-> ib, Ingresos_Totales |-> it,
         Costos_Personal |-> cp, Costos_Fijos |-> cf, Costos_Variables |-> cv,
         Costos_Totales |-> ct,
         Utilidad_Bruta |-> bru, Impuestos |-> imp, Utilidad_Neta |-> neta,
         Flujo_Efectivo |-> neta,
         Margen_Bruto |-> Margen(bru, it), Margen_Neto |-> Margen(neta, it)]

\* df['Flujo_Efectivo'].cumsum(), at position pos of the index idx
RECURSIVE CumSum(_, _, _)
CumSum(p, idx, pos) ==
    IF pos = 0 THEN 0
    ELSE CumSum(p, idx, pos - 1) + FilaBase(p, idx[pos]).Flujo_Efectivo

\* df['Efectivo_Acumulado'] = df['Flujo_Efectivo'].cumsum() + inversion_inicial
EfectivoAcumuladoCadaMes(p, idx, pos) ==
    CumSum(p, idx, pos) + pos * p.inversion_inicial * Milli
EfectivoAcumulado(p, idx, pos) ==
    CumSum(p, idx, pos) + p.inversion_inicial * Milli

\* One row of the returned frame (df.reset_index(): the index becomes 'Mes').
Fila(p, idx, pos) ==
    LET ea == EfectivoAcumulado(p, idx, pos)
    IN  FilaBase(p, idx[pos]) @@
        [Efectivo_Acumulado |-> ea, ROI_Acumulado |-> ROI(ea, p.inversion_inicial)]

calcular_proyeccion_financiera(p) ==
    LET idx == Indice(p.meses)
    IN  [pos \in 1..Len(idx) |-> Fila(p, idx, pos)]


-----------------------------------------------------------------------------
(* @st.cache_data(ttl=3600): the entry point through which the script calls  *)
(* the engine.  The store maps the argument values of a call to the ledger   *)
(* it returned.                                                              *)

CacheVacio == [k \in {} |-> <<>>]

\* A store that hands out whatever it holds while that has not expired,
\* without comparing the arguments.
CacheDataPorTiempo(c, args) ==
    IF DOMAIN c # {} THEN c[CHOOSE k \in DOMAIN c : TRUE]
    ELSE calcular_proyeccion_financiera(args)
\* The value a call returns: the stored ledger of an entry with equal
\* argument values, else the function is run.
CacheData(c, args) ==
    IF args \in DOMAIN c THEN c[args] ELSE calcular_proyeccion_financiera(args)

\* A store of one cell: a miss leaves every key pointing at the new ledger.
CacheTrasUnaCelda(c, args, ledger) ==
    IF args \in DOMAIN c THEN c ELSE [k \in DOMAIN c \cup {args} |-> ledger]
\* The store after a call that returned `ledger` (a miss adds the entry).
CacheTras(c, args, ledger) ==
    IF args \in DOMAIN c THEN c ELSE c @@ (args :> ledger)

\* The record of first returns after a call that returned `ledger`.
PrimerDevuelto(h, args, ledger) ==
    IF args \in DOMAIN h THEN h ELSE h @@ (args :> ledger)

-----------------------------------------------------------------------------
(* The widget values of one script run *)

SinNomina == [r \in Roles |-> 0]
\* Salaries entered for two roles, zero for the others.
ConNomina == [r \in Roles |-> IF r = "Dev Fullstack" THEN 10
                              ELSE IF r = "Soporte" THEN 5 ELSE 0]
SinGracia == [r \in Roles |-> 0]
ConGracia == [r \in Roles |-> IF r = "Dev Fullstack" THEN 1
                              ELSE IF r = "Soporte" THEN 2 ELSE 0]

\* (sueldos, gracia) pairs offered to the run.
NominaOpts == { <<SinNomina, SinGracia>>, <<ConNomina, SinGracia>>, <<ConNomina, ConGracia>> }

\* costos_fijos = {..., 'total': infraestructura + legales + appstore + marketing + otros}
CostosFijos(infraestructura, legales, appstore, marketing, otros) ==
    [infraestructura |-> infraestructura, legales |-> legales, appstore |-> appstore,
     marketing |-> marketing, otros |-> otros,
     total |-> infraestructura + legales + appstore + marketing + otros]

CostosFijosOpts == { CostosFijos(4, 1, 2, 2, 1) }

Configs ==
    { [meses |-> m, usuarios_premium_inicio |-> up, usuarios_basica_inicio |-> ub,
       precio_premium |-> pp, precio_basica |-> pb, crecimiento_mensual |-> g,
       sueldos |-> n[1], gracia |-> n[2], costos_fijos |-> cf, costo_variable |-> cv,
       inversion_inicial |-> inv, tasa_impuestos |-> t] :
      m \in 1..MaxMeses, up \in {0, 2}, ub \in {0, 3},
      pp \in {50, 90}, pb \in {10, 60}, g \in {0, 5},
      n \in NominaOpts, cf \in CostosFijosOpts, cv \in {0, 25, 50},
      inv \in {0, 50}, t \in {0, 50} }

\* The configurations of the sessions of SpecCache: two valid ones that differ
\* in the variable cost, and one that validation rejects.
ConfigsCache ==
    { c \in Configs :
        /\ c.meses = MaxMeses
        /\ c.usuarios_premium_inicio = 2 /\ c.usuarios_basica_inicio = 3
        /\ c.precio_premium = 90 /\ c.crecimiento_mensual = 5
        /\ c.sueldos = ConNomina /\ c.gracia = ConGracia
        /\ c.inversion_inicial = 50 /\ c.tasa_impuestos = 50
        /\ \/ c.precio_basica = 60 /\ c.costo_variable \in {25, 50}
           \/ c.precio_basica = 10 /\ c.costo_variable = 25 }

-----------------------------------------------------------------------------
(* validate_inputs *)

RECURSIVE SumValues(_, _)
\* sum(d.values()) over the keys in S
SumValues(d, S) ==
    IF S = {} THEN 0
    ELSE LET k == CHOOSE x \in S : TRUE IN d[k] + SumValues(d, S \ {k})

ErrPremium == "El precio premium debe ser mayor al costo variable"
ErrBasica == "El precio basico debe ser mayor al costo variable"
ErrUsuarios == "Debe tener al menos un usuario inicial"
WarnInversion == "La inversion inicial podria ser insuficiente para financiar al equipo durante 3 meses"

validate_inputs_strict(c) ==
    [errors |->
        (IF c.precio_premium < c.costo_variable THEN <<ErrPremium>> ELSE <<>>) \o
        (IF c.precio_basica < c.costo_variable THEN <<ErrBasica>> ELSE <<>>) \o
        (IF c.usuarios_premium_inicio + c.usuarios_basica_inicio = 0
            THEN <<ErrUsuarios>> ELSE <<>>),
     warnings_list |->
        IF c.inversion_inicial < SumValues(c.sueldos, DOMAIN c.sueldos) * 3
            THEN <<WarnInversion>> ELSE <<>>]
validate_inputs(c) ==
    [errors |->
        (IF c.precio_premium <= c.costo_variable THEN <<ErrPremium>> ELSE <<>>) \o
        (IF c.precio_basica <= c.costo_variable THEN <<ErrBasica>> ELSE <<>>) \o
        (IF c.usuarios_premium_inicio + c.usuarios_basica_inicio = 0
            THEN <<ErrUsuarios>> ELSE <<>>),
     warnings_list |->
        IF c.inversion_inicial < SumValues(c.sueldos, DOMAIN c.sueldos) * 3
            THEN <<WarnInversion>> ELSE <<>>]

\* if errors: ...; st.stop()
TrasValidarSinStop(errs) == "calculos"
TrasValidar(errs) == IF errs # <<>> THEN "stopped" ELSE "calculos"

-----------------------------------------------------------------------------
(* Break-even *)

\* df[df['Utilidad_Neta'] > 0]
Positivos(d) == SelectSeq(d, LAMBDA r : r.Utilidad_Neta > 0)

\* df[df['Mes'] == mes]
DelMes(d, mes) == SelectSeq(d, LAMBDA r : r.Mes = mes)

\* try: ...['Mes'].iloc[0] ... except IndexError: (not reached)
BreakEvenUltimo(d) ==
    IF Positivos(d) = <<>> THEN [alcanzado |-> FALSE]
    ELSE LET mes == Positivos(d)[Len(Positivos(d))].Mes
         IN  [alcanzado |-> TRUE, mes |-> mes,
              usuarios |-> Head(DelMes(d, mes)).Total_Usuarios,
              ingresos |-> Head(DelMes(d, mes)).Ingresos_Totales]
BreakEven(d) ==
    IF Positivos(d) = <<>> THEN [alcanzado |-> FALSE]
    ELSE LET mes == Head(Positivos(d)).Mes
         IN  [alcanzado |-> TRUE, mes |-> mes,
              usuarios |-> Head(DelMes(d, mes)).Total_Usuarios,
              ingresos |-> Head(DelMes(d, mes)).Ingresos_Totales]

\* generar_reporte_ejecutivo: the break-even line of the report
NoAlcanzado == "No alcanzado en el periodo"
BreakEvenText(d) ==
    IF Positivos(d) = <<>> THEN <<NoAlcanzado>> ELSE <<"Mes", Head(Positivos(d)).Mes>>

-----------------------------------------------------------------------------
(* Sensitivity sweep *)

SensOpts == {"Precio Premium", "Precio Basico", "Crecimiento Mensual", "Costo Variable"}

\* np.linspace(a, b, 11)[k], k = 0..10
Linspace(a, b, k) == a + (k * (b - a)) \div (NumSamples - 1)

\* crecimiento_mensual * 100: the growth rate as a percentage
EnPorcentaje(crecimiento) == (crecimiento * 100) \div GrowthDen
\* value / 100: a percentage as a growth rate
DePorcentaje(value) == (value * GrowthDen) \div 100

\* The if/elif/else that picks base_value, range_values and param_key.
Seleccion(c, param) ==
    IF param = "Precio Premium" THEN
        [base_value |-> c.precio_premium, param_key |-> "precio_premium",
         range_values |-> [i \in 1..NumSamples |->
            Linspace(c.precio_premium \div 2, (c.precio_premium * 3) \div 2, i - 1)]]
    ELSE IF param = "Precio Basico" THEN
        [base_value |-> c.precio_basica, param_key |-> "precio_basica",
         range_values |-> [i \in 1..NumSamples |->
            Linspace(c.precio_basica \div 2, (c.precio_basica * 3) \div 2, i - 1)]]
    ELSE IF param = "Crecimiento Mensual" THEN
        [base_value |-> EnPorcentaje(c.crecimiento_mensual), param_key |-> "crecimiento_mensual",
         range_values |-> [i \in 1..NumSamples |->
            Linspace(0, EnPorcentaje(c.crecimiento_mensual) * 2, i - 1)]]
    ELSE
        [base_value |-> c.costo_variable, param_key |-> "costo_variable",
         range_values |-> [i \in 1..NumSamples |->
            Linspace(0, c.costo_variable * 2, i - 1)]]

\* temp_params = {...}; then the if/elif/else on param_key
TempParamsCruzado(c, key, value) ==
    IF key = "precio_premium" THEN [c EXCEPT !.precio_basica = value]
    ELSE IF key = "precio_basica" THEN [c EXCEPT !.precio_premium = value]
    ELSE IF key = "crecimiento_mensual" THEN [c EXCEPT !.crecimiento_mensual = DePorcentaje(value)]
    ELSE [c EXCEPT !.costo_variable = value]
TempParams(c, key, value) ==
    IF key = "precio_premium" THEN [c EXCEPT !.precio_premium = value]
    ELSE IF key = "precio_basica" THEN [c EXCEPT !.precio_basica = value]
    ELSE IF key = "crecimiento_mensual" THEN [c EXCEPT !.crecimiento_mensual = DePorcentaje(value)]
    ELSE [c EXCEPT !.costo_variable = value]

\* The base values after one iteration: temp_params is a new dict built from
\* them, and the override is written to that dict only.
VariablesBaseAlias(c, tp) == tp
VariablesBase(c, tp) == c

\* temp_df[...].iloc[-1]
Ultimo(d) == d[Len(d)]

Resultado(value, d) ==
    [Parametro |-> value,
     Utilidad_Final |-> Ultimo(d).Utilidad_Neta,
     Efectivo_Final |-> Ultimo(d).Efectivo_Acumulado,
     ROI_Final |-> Ultimo(d).ROI_Acumulado]

-----------------------------------------------------------------------------
(* Risk analysis *)

\* len(df[df['Utilidad_Neta'] < 0])
MesesNegativos(d) == Len(SelectSeq(d, LAMBDA r : r.Utilidad_Neta < 0))

RECURSIVE MinEfectivo(_)
\* df['Efectivo_Acumulado'].min()
MinEfectivo(d) ==
    IF Len(d) = 1 THEN Head(d).Efectivo_Acumulado
    ELSE LET m == MinEfectivo(Tail(d))
         IN  IF Head(d).Efectivo_Acumulado < m THEN Head(d).Efectivo_Acumulado ELSE m

\* if efectivo_minimo < 0 / elif meses_negativos > meses * 0.5 / else
RiesgoMedioPrimero(d, meses) ==
    IF 2 * MesesNegativos(d) > meses THEN "MEDIO"
    ELSE IF MinEfectivo(d) < 0 THEN "ALTO"
    ELSE "BAJO"
Riesgo(d, meses) ==
    IF MinEfectivo(d) < 0 THEN "ALTO"
    ELSE IF 2 * MesesNegativos(d) > meses THEN "MEDIO"
    ELSE "BAJO"

-----------------------------------------------------------------------------
(* Export *)

\* export_df = df.copy(); export_df['Fecha'] = pd.date_range(..., periods=len, freq='M')
\* Fecha is kept as the number of the month end, counted from January 2024.
ExportDf(d) == [i \in 1..Len(d) |-> d[i] @@ [Fecha |-> i]]

-----------------------------------------------------------------------------
(* One run of the script *)

VARIABLES
    cfg,                    \* the widget values
    pc,                     \* position of the run in the script
    errors, warnings,       \* what validate_inputs returned
    df,                     \* the main ledger
    reporte,                \* break-even line of the executive report (tab 1)
    break_even,             \* break-even analysis (tab 4)
    sensibilidad_param, param_key, range_values,
    temp_params, temp_df, sensibilidad_results,
    riesgo,                 \* risk level shown (tab 4)
    export_df,              \* frame exported (tab 5)
    llamadas,               \* calls of the engine's entry point in this run
    cache,                  \* the st.cache_data store of the entry point
    devueltos,              \* per argument values, the first ledger ever returned
    corridas                \* runs of the script started in this session

vars == <<cfg, pc, errors, warnings, df, reporte, break_even, sensibilidad_param,
          param_key, range_values, temp_params, temp_df, sensibilidad_results,
          riesgo, export_df, llamadas, cache, devueltos, corridas>>

\* What outlives a run.
sesionVars == <<cache, devueltos, corridas>>

sensVars == <<sensibilidad_param, param_key, range_values, temp_params, temp_df,
              sensibilidad_results>>

Nada == <<>>
\* No text chosen or shown yet.
SinTexto == ""

Init ==
    /\ cfg \in Configs
    /\ pc = "validaciones"
    /\ errors = Nada /\ warnings = Nada
    /\ df = Nada
    /\ reporte = Nada
    /\ break_even = Nada
    /\ sensibilidad_param = SinTexto /\ param_key = SinTexto /\ range_values = Nada
    /\ temp_params = Nada /\ temp_df = Nada /\ sensibilidad_results = Nada
    /\ riesgo = SinTexto
    /\ export_df = Nada
    /\ llamadas = 0
    /\ cache = CacheVacio
    /\ devueltos = CacheVacio
    /\ corridas = 1

\* errors, warnings = validate_inputs(); if errors: st.error(...); st.stop()
Validaciones ==
    /\ pc = "validaciones"
    /\ \E v \in {validate_inputs(cfg)} :
        /\ errors' = v.errors
        /\ warnings' = v.warnings_list
        /\ pc' = TrasValidar(v.errors)
    /\ UNCHANGED <<cfg, df, reporte, break_even, sensVars, riesgo, export_df, llamadas,
                   sesionVars>>

\* df = calcular_proyeccion_financiera(...)
CalculosPrincipales ==
    /\ pc = "calculos"
    /\ \E ledger \in {CacheData(cache, cfg)} :
        /\ df' = ledger
        /\ cache' = CacheTras(cache, cfg, ledger)
        /\ devueltos' = PrimerDevuelto(devueltos, cfg, ledger)
    /\ llamadas' = llamadas + 1
    /\ pc' = "tab1"
    /\ UNCHANGED <<cfg, errors, warnings, reporte, break_even, sensVars, riesgo, export_df,
                   corridas>>

\* tab1: st.markdown(generar_reporte_ejecutivo(df))
ResumenEjecutivo ==
    /\ pc = "tab1"
    /\ reporte' = BreakEvenText(df)
    /\ pc' = "tab4"
    /\ UNCHANGED <<cfg, errors, warnings, df, break_even, sensVars, riesgo, export_df, llamadas,
                   sesionVars>>

\* tab4: break-even analysis, then the sweep's parameter selection on a name
\* from `opciones`
Tab4(opciones) ==
    /\ pc = "tab4"
    /\ break_even' = BreakEven(df)
    /\ \E param \in opciones :
        /\ sensibilidad_param' = param
        /\ param_key' = Seleccion(cfg, param).param_key
        /\ range_values' = Seleccion(cfg, param).range_values
    /\ sensibilidad_results' = <<>>
    /\ pc' = "sensibilidad"
    /\ UNCHANGED <<cfg, errors, warnings, df, reporte, temp_params, temp_df, riesgo,
                   export_df, llamadas, sesionVars>>

\* sensibilidad_param = st.selectbox(..., [the four options])
PuntoDeEquilibrio == Tab4(SensOpts)

\* one iteration of `for value in range_values`
Sensibilidad ==
    /\ pc = "sensibilidad"
    /\ Len(sensibilidad_results) < Len(range_values)
    /\ \E value \in {range_values[Len(sensibilidad_results) + 1]} :
       \E tp \in {TempParams(cfg, param_key, value)} :
       \E td \in {CacheData(cache, tp)} :
           /\ temp_params' = tp
           /\ temp_df' = td
           /\ sensibilidad_results' = Append(sensibilidad_results, Resultado(value, td))
           /\ cfg' = VariablesBase(cfg, tp)
           /\ cache' = CacheTras(cache, tp, td)
           /\ devueltos' = PrimerDevuelto(devueltos, tp, td)
    /\ llamadas' = llamadas + 1
    /\ UNCHANGED <<pc, errors, warnings, df, reporte, break_even,
                   sensibilidad_param, param_key, range_values, riesgo, export_df, corridas>>

\* after the loop: the risk analysis
AnalisisDeRiesgos ==
    /\ pc = "sensibilidad"
    /\ Len(sensibilidad_results) = Len(range_values)
    /\ riesgo' = Riesgo(df, cfg.meses)
    /\ pc' = "tab5"
    /\ UNCHANGED <<cfg, errors, warnings, df, reporte, break_even, sensVars, export_df, llamadas,
                   sesionVars>>

\* tab5: export_df = df.copy() ...
Exportar ==
    /\ pc = "tab5"
    /\ export_df' = ExportDf(df)
    /\ pc' = "done"
    /\ UNCHANGED <<cfg, errors, warnings, df, reporte, break_even, sensVars, riesgo, llamadas,
                   sesionVars>>

Next ==
    \/ Validaciones
    \/ CalculosPrincipales
    \/ ResumenEjecutivo
    \/ PuntoDeEquilibrio
    \/ Sensibilidad
    \/ AnalisisDeRiesgos
    \/ Exportar

Spec == Init /\ [][Next]_vars

-----------------------------------------------------------------------------
(* A session: reruns of the script over one st.cache_data store *)

InitCache == Init /\ cfg \in ConfigsCache

\* The script is run again from the top with the widget values of the moment;
\* only the store of st.cache_data is kept.
Rerun ==
    /\ pc \in {"done", "stopped"}
    /\ corridas < MaxCorridas
    /\ cfg' \in ConfigsCache
    /\ pc' = "validaciones"
    /\ errors' = Nada /\ warnings' = Nada
    /\ df' = Nada
    /\ reporte' = Nada
    /\ break_even' = Nada
    /\ sensibilidad_param' = SinTexto /\ param_key' = SinTexto /\ range_values' = Nada
    /\ temp_params' = Nada /\ temp_df' = Nada /\ sensibilidad_results' = Nada
    /\ riesgo' = SinTexto
    /\ export_df' = Nada
    /\ llamadas' = 0
    /\ corridas' = corridas + 1
    /\ UNCHANGED <<cache, devueltos>>

\* ttl=3600: the session stayed idle for more than an hour after a run, and
\* every entry stored so far has expired.
Expirar ==
    /\ pc \in {"done", "stopped"}
    /\ cache # CacheVacio
    /\ cache' = CacheVacio
    /\ UNCHANGED <<cfg, pc, errors, warnings, df, reporte, break_even, sensVars, riesgo,
                   export_df, llamadas, devueltos, corridas>>

NextCache ==
    \/ Validaciones
    \/ CalculosPrincipales
    \/ ResumenEjecutivo
    \/ PuntoDeEquilibrio
    \/ Sensibilidad
    \/ AnalisisDeRiesgos
    \/ Exportar
    \/ Rerun
    \/ Expirar

SpecCache == InitCache /\ [][NextCache]_vars

-----------------------------------------------------------------------------
(* One run with a sweep parameter outside the selectbox's options *)

\* A parameter name that is none of the four options.
OtroParametro == "Tasa de Impuestos"

\* The selection of lines 715-730 reached with any name.
PuntoDeEquilibrioLibre == Tab4(SensOpts \cup {OtroParametro})

NextParametroLibre ==
    \/ Validaciones
    \/ CalculosPrincipales
    \/ ResumenEjecutivo
    \/ PuntoDeEquilibrioLibre
    \/ Sensibilidad
    \/ AnalisisDeRiesgos
    \/ Exportar

SpecParametroLibre == InitCache /\ [][NextParametroLibre]_vars

-----------------------------------------------------------------------------
(* Properties *)

\* Every <<parameters, ledger>> pair the engine has returned and the run still
\* holds: the main ledger and the ledger of the latest sweep sample.
Producidos ==
    (IF df # Nada THEN {<<cfg, df>>} ELSE {}) \cup
    (IF temp_df # Nada THEN {<<temp_params, temp_df>>} ELSE {})

\* C1: the projection returns exactly `meses` records whose month indices are
\* 1, 2, ..., meses, in increasing order, without gaps or duplicates.
C1_MesesContiguos ==
    \A pd \in Producidos :
        /\ Len(pd[2]) = pd[1].meses
        /\ \A i \in 1..Len(pd[2]) : pd[2][i].Mes = i

C1_Witness ==
    /\ pc = "done" /\ Len(df) = MaxMeses /\ Len(temp_df) = MaxMeses
    /\ df[MaxMeses].Mes = MaxMeses

\* C2: cumulative cash of month 1 is the initial investment plus that month's
\* net profit, and of every later month the previous month's cumulative cash
\* plus the month's net profit (the investment enters exactly once).
C2_EfectivoAcumulado ==
    \A pd \in Producidos :
        /\ pd[2][1].Efectivo_Acumulado =
              pd[1].inversion_inicial * Milli + pd[2][1].Utilidad_Neta
        /\ \A i \in 2..Len(pd[2]) :
              pd[2][i].Efectivo_Acumulado =
                  pd[2][i - 1].Efectivo_Acumulado + pd[2][i].Utilidad_Neta

C2_Witness ==
    /\ df # Nada /\ Len(df) >= 2 /\ cfg.inversion_inicial > 0
    /\ df[1].Utilidad_Neta < 0 /\ df[2].Utilidad_Neta > 0

\* C3 as stated: tax >= 0, net profit <= gross profit, and net profit equals
\* gross profit exactly when gross profit <= 0, for every tax rate.
C3_Original ==
    \A pd \in Producidos : \A i \in 1..Len(pd[2]) :
        /\ pd[2][i].Impuestos >= 0
        /\ pd[2][i].Utilidad_Neta <= pd[2][i].Utilidad_Bruta
        /\ (pd[2][i].Utilidad_Neta = pd[2][i].Utilidad_Bruta) <=>
              (pd[2][i].Utilidad_Bruta <= 0)

\* C3 (amended): tax >= 0, net profit <= gross profit, and net profit equals
\* gross profit exactly when gross profit <= 0 or the tax rate is 0.
C3_Impuestos ==
    \A pd \in Producidos : \A i \in 1..Len(pd[2]) :
        /\ pd[2][i].Impuestos >= 0
        /\ pd[2][i].Utilidad_Neta <= pd[2][i].Utilidad_Bruta
        /\ (pd[2][i].Utilidad_Neta = pd[2][i].Utilidad_Bruta) <=>
              (pd[2][i].Utilidad_Bruta <= 0 \/ pd[1].tasa_impuestos = 0)

C3_Witness ==
    /\ df # Nada /\ Len(df) >= 2 /\ cfg.tasa_impuestos > 0
    /\ df[1].Utilidad_Bruta < 0 /\ df[1].Utilidad_Neta = df[1].Utilidad_Bruta
    /\ df[2].Utilidad_Bruta > 0 /\ df[2].Utilidad_Neta < df[2].Utilidad_Bruta

RECURSIVE SumaNomina(_, _)
\* Sum over the team positions in S of salary * headcount.
SumaNomina(p, S) ==
    IF S = {} THEN 0
    ELSE LET i == CHOOSE x \in S : TRUE
         IN  p.sueldos[Equipo[i][1]] * Equipo[i][2] * Milli + SumaNomina(p, S \ {i})

\* C4: the personnel cost of month i is the sum of salary * headcount over
\* exactly the roles whose grace period is strictly below i.
C4_CostosPersonal ==
    \A pd \in Producidos : \A i \in 1..Len(pd[2]) :
        pd[2][i].Costos_Personal =
            SumaNomina(pd[1], {k \in 1..Len(Equipo) :
                                  pd[2][i].Mes >= pd[1].gracia[Equipo[k][1]] + 1})

\* A role with a salary is in the month equal to its grace period (unpaid) and
\* another role is already paid.
C4_Witness ==
    /\ df # Nada /\ Len(df) >= 2
    /\ cfg.gracia["Soporte"] = 2 /\ cfg.sueldos["Soporte"] > 0
    /\ df[2].Costos_Personal = cfg.sueldos["Dev Fullstack"] * 2 * Milli
    /\ df[2].Costos_Personal > 0

\* The configuration of the break-even example, with horizon h.
Ejemplo(h) ==
    [meses |-> h, usuarios_premium_inicio |-> 50, usuarios_basica_inicio |-> 100,
     precio_premium |-> 100, precio_basica |-> 50, crecimiento_mensual |-> 1,
     sueldos |-> SinNomina, gracia |-> SinGracia,
     costos_fijos |-> CostosFijos(500, 0, 0, 0, 0), costo_variable |-> 0,
     inversion_inicial |-> 0, tasa_impuestos |-> 0]

\* The example passes validation, its first month has a net profit of 500, and
\* (for the horizons explored) its break-even month is 1.
EjemploEnMes1 ==
    /\ validate_inputs(Ejemplo(12)).errors = <<>>
    /\ calcular_proyeccion_financiera(Ejemplo(12))[1].Utilidad_Neta = 500 * Milli
    /\ \A h \in 1..MaxMeses :
          /\ BreakEven(calcular_proyeccion_financiera(Ejemplo(h))).mes = 1
          /\ BreakEvenText(calcular_proyeccion_financiera(Ejemplo(h))) = <<"Mes", 1>>

\* C5: the break-even shown is the record with the smallest month whose net
\* profit is positive, "not reached" when there is none; the example
\* configuration breaks even in month 1.
C5_BreakEven ==
    /\ break_even # Nada =>
          LET pos == {i \in 1..Len(df) : df[i].Utilidad_Neta > 0}
          IN  IF pos = {} THEN break_even = [alcanzado |-> FALSE]
              ELSE /\ break_even.alcanzado
                   /\ \E i \in pos :
                        /\ break_even.mes = df[i].Mes
                        /\ break_even.usuarios = df[i].Total_Usuarios
                        /\ break_even.ingresos = df[i].Ingresos_Totales
                        /\ \A j \in pos : df[i].Mes <= df[j].Mes
    /\ reporte # Nada =>
          LET pos == {i \in 1..Len(df) : df[i].Utilidad_Neta > 0}
          IN  IF pos = {} THEN reporte = <<NoAlcanzado>>
              ELSE \E i \in pos : /\ reporte = <<"Mes", df[i].Mes>>
                                  /\ \A j \in pos : df[i].Mes <= df[j].Mes
    /\ EjemploEnMes1

\* Break-even is reached in month 2: month 1 had no profit, and a later month
\* is profitable too.
C5_Witness ==
    /\ break_even # Nada /\ Len(df) >= 3
    /\ break_even.alcanzado /\ break_even.mes = 2
    /\ df[1].Utilidad_Neta <= 0 /\ df[3].Utilidad_Neta > 0

\* Break-even is month 1 although a later month falls back to a loss.
C5_WitnessRecaida ==
    /\ break_even # Nada /\ Len(df) >= 3
    /\ break_even.alcanzado /\ break_even.mes = 1
    /\ df[3].Utilidad_Neta < 0

C5_WitnessNoAlcanzado == break_even = [alcanzado |-> FALSE] /\ reporte = <<NoAlcanzado>>

\* C6: the risk level is ALTO whenever some month's cumulative cash is
\* negative; otherwise MEDIO exactly when the months with negative net profit
\* are more than half of the horizon; otherwise BAJO.
C6_Riesgo ==
    riesgo # SinTexto =>
        LET negativo == \E i \in 1..Len(df) : df[i].Efectivo_Acumulado < 0
            perdidas == Cardinality({i \in 1..Len(df) : df[i].Utilidad_Neta < 0})
        IN  /\ riesgo \in {"ALTO", "MEDIO", "BAJO"}
            /\ (riesgo = "ALTO") <=> negativo
            /\ (riesgo = "MEDIO") <=> (~negativo /\ 2 * perdidas > cfg.meses)
            /\ (riesgo = "BAJO") <=> (~negativo /\ 2 * perdidas <= cfg.meses)

\* ALTO although most months are profitable.
C6_Witness ==
    /\ riesgo = "ALTO"
    /\ 2 * Cardinality({i \in 1..Len(df) : df[i].Utilidad_Neta > 0}) > cfg.meses

C6_WitnessMedio == riesgo = "MEDIO"

\* C7: the engine runs only after validation has completed without errors; a
\* run whose validation reports an error stops there and produces no ledger,
\* analytics, sweep or export.
C7_ValidacionPrimero ==
    /\ llamadas > 0 => (pc # "validaciones" /\ errors = <<>>)
    /\ (pc # "validaciones" /\ errors # <<>>) =>
          /\ pc = "stopped"
          /\ llamadas = 0
          /\ df = Nada /\ temp_df = Nada
          /\ reporte = Nada /\ break_even = Nada /\ riesgo = SinTexto
          /\ sensibilidad_results = Nada /\ export_df = Nada
    /\ pc = "validaciones" => (llamadas = 0 /\ df = Nada)

C7_Witness == pc = "stopped" /\ errors # <<>> /\ llamadas = 0

PrecioBajoCosto(p) ==
    p.precio_premium <= p.costo_variable \/ p.precio_basica <= p.costo_variable

C9_Original ==
    \A pd \in Producidos :
        PrecioBajoCosto(pd[1]) =>
            \A i \in 1..Len(pd[2]) : pd[2][i].Utilidad_Neta <= 0

\* C9 (amended): if both prices are <= the variable cost per user, no month of
\* the ledger has a positive net profit.
C9_SinUtilidad ==
    \A pd \in Producidos :
        (/\ pd[1].precio_premium <= pd[1].costo_variable
         /\ pd[1].precio_basica <= pd[1].costo_variable) =>
            \A i \in 1..Len(pd[2]) : pd[2][i].Utilidad_Neta <= 0

C9_Witness ==
    /\ temp_df # Nada
    /\ temp_params.precio_premium <= temp_params.costo_variable
    /\ temp_params.precio_basica <= temp_params.costo_variable
    /\ temp_df[1].Ingresos_Totales > 0

\* The field of the parameters that a sweep option stands for.
CampoDe(param) ==
    CASE param = "Precio Premium" -> "precio_premium"
      [] param = "Precio Basico" -> "precio_basica"
      [] param = "Crecimiento Mensual" -> "crecimiento_mensual"
      [] param = "Costo Variable" -> "costo_variable"

\* The number `value` as a value of the field, in the field's unit here.
ComoCampo(param, value) ==
    IF param = "Crecimiento Mensual" THEN value * GrowthDen ELSE value

\* A sweep step appended to sensibilidad_results the row of sample `value`,
\* from an engine run on cfg with only CampoDe(param) replaced by `campo`.
PasoDeBarrido(value, campo) ==
    /\ Len(sensibilidad_results) < NumSamples
    /\ value = range_values[Len(sensibilidad_results) + 1]
    /\ \A f \in DOMAIN cfg :
          temp_params'[f] = IF f = CampoDe(sensibilidad_param) THEN campo ELSE cfg[f]
    /\ DOMAIN temp_params' = DOMAIN cfg
    /\ temp_df' = calcular_proyeccion_financiera(temp_params')
    /\ sensibilidad_results' =
          Append(sensibilidad_results,
                 [Parametro |-> value,
                  Utilidad_Final |-> temp_df'[cfg.meses].Utilidad_Neta,
                  Efectivo_Final |-> temp_df'[cfg.meses].Efectivo_Acumulado,
                  ROI_Final |-> temp_df'[cfg.meses].ROI_Acumulado])

\* C10 as stated: each sweep step runs the engine on the base parameters with
\* the one field set to the sample value itself, and appends the row of that
\* value and of that run's final month.
C10_Original ==
    [][(pc = "sensibilidad" /\ sensibilidad_results' # sensibilidad_results) =>
          \E value \in {range_values[Len(sensibilidad_results) + 1]} :
              PasoDeBarrido(value, ComoCampo(sensibilidad_param, value))]_vars

\* C10 (amended): as stated, except that for the monthly growth rate the
\* sample value is a percentage and the field is set to the sample value
\* divided by 100.
C10_Barrido ==
    [][(pc = "sensibilidad" /\ sensibilidad_results' # sensibilidad_results) =>
          \E value \in {range_values[Len(sensibilidad_results) + 1]} :
              PasoDeBarrido(value,
                  IF sensibilidad_param = "Crecimiento Mensual"
                      THEN (ComoCampo(sensibilidad_param, value)) \div 100
                      ELSE ComoCampo(sensibilidad_param, value))]_vars

C10_Witness ==
    /\ pc = "sensibilidad" /\ Len(sensibilidad_results) = NumSamples
    /\ sensibilidad_param = "Crecimiento Mensual"
    /\ sensibilidad_results[NumSamples].Parametro > 0
    /\ temp_params.crecimiento_mensual > cfg.crecimiento_mensual
    /\ sensibilidad_results[NumSamples].Utilidad_Final > sensibilidad_results[1].Utilidad_Final

\* C12: with a growth rate >= 0, premium and basic users never decrease from
\* one month to the next; every user count is >= 0 and the total is the sum of
\* the two segments.
C12_UsuariosMonotonos ==
    \A pd \in Producidos :
        pd[1].crecimiento_mensual >= 0 =>
            /\ \A i \in 1..Len(pd[2]) :
                  /\ pd[2][i].Usuarios_Premium >= 0
                  /\ pd[2][i].Usuarios_Basicos >= 0
                  /\ pd[2][i].Total_Usuarios >= 0
                  /\ pd[2][i].Total_Usuarios =
                        pd[2][i].Usuarios_Premium + pd[2][i].Usuarios_Basicos
            /\ \A i \in 1..(Len(pd[2]) - 1) :
                  /\ pd[2][i].Usuarios_Premium <= pd[2][i + 1].Usuarios_Premium
                  /\ pd[2][i].Usuarios_Basicos <= pd[2][i + 1].Usuarios_Basicos

\* Both segments grow, and a sweep sample with a small growth rate leaves a
\* segment at the same count from one month to the next.
C12_Witness ==
    /\ df # Nada /\ temp_df # Nada /\ Len(df) >= 3
    /\ cfg.crecimiento_mensual > 0
    /\ df[2].Usuarios_Premium > df[1].Usuarios_Premium
    /\ df[3].Usuarios_Basicos > df[2].Usuarios_Basicos
    /\ temp_params.crecimiento_mensual > 0
    /\ temp_df[2].Usuarios_Premium = temp_df[1].Usuarios_Premium
    /\ temp_df[1].Usuarios_Premium > 0

Abs(x) == IF x < 0 THEN 0 - x ELSE x

\* n is an integer nearest to num / den (den > 0), whatever the rule for ties.
EsRedondeo(n, num, den) == 2 * Abs(n * den - num) <= den

\* n is the integer nearest to num / den, the even one in a tie.
EsRedondeoPar(n, num, den) ==
    /\ EsRedondeo(n, num, den)
    /\ 2 * Abs(n * den - num) = den => n % 2 = 0

\* C13 as stated: users of month 1 are the initial count and users of month
\* i > 1 are the rounding of the previous month's (rounded) users times 1 + g.
C13_Original ==
    \A pd \in Producidos :
        /\ pd[2][1].Usuarios_Premium = pd[1].usuarios_premium_inicio
        /\ pd[2][1].Usuarios_Basicos = pd[1].usuarios_basica_inicio
        /\ \A i \in 2..Len(pd[2]) :
              /\ EsRedondeo(pd[2][i].Usuarios_Premium,
                     pd[2][i - 1].Usuarios_Premium * (GrowthDen + pd[1].crecimiento_mensual),
                     GrowthDen)
              /\ EsRedondeo(pd[2][i].Usuarios_Basicos,
                     pd[2][i - 1].Usuarios_Basicos * (GrowthDen + pd[1].crecimiento_mensual),
                     GrowthDen)

\* C13 (amended): users of month i are the rounding (ties to even) of the
\* exact value initial * (1 + g)^(i - 1), each month rounded on its own from
\* the unrounded power; month 1 is the initial count.
C13_UsuariosFormaCerrada ==
    \A pd \in Producidos :
        /\ pd[2][1].Usuarios_Premium = pd[1].usuarios_premium_inicio
        /\ pd[2][1].Usuarios_Basicos = pd[1].usuarios_basica_inicio
        /\ \A i \in 1..Len(pd[2]) :
              /\ EsRedondeoPar(pd[2][i].Usuarios_Premium,
                     pd[1].usuarios_premium_inicio
                         * Pow(GrowthDen + pd[1].crecimiento_mensual, i - 1),
                     Pow(GrowthDen, i - 1))
              /\ EsRedondeoPar(pd[2][i].Usuarios_Basicos,
                     pd[1].usuarios_basica_inicio
                         * Pow(GrowthDen + pd[1].crecimiento_mensual, i - 1),
                     Pow(GrowthDen, i - 1))

\* 3 users growing 50% a month: 3, 4 (4.5 to even), 7 (6.75); compounding on
\* the rounded 4 would give 6.
C13_Witness ==
    /\ df # Nada /\ Len(df) >= 3
    /\ cfg.usuarios_basica_inicio = 3 /\ cfg.crecimiento_mensual = 5
    /\ df[2].Usuarios_Basicos = 4 /\ df[3].Usuarios_Basicos = 7

\* C14: every ratio column has a defined value (a non-zero denominator behind
\* it): the cumulative ROI is 0 in every month when the initial investment is
\* 0 and (cumulative cash - investment) / investment otherwise; both margins
\* are 0 in a month without revenue and profit / revenue otherwise.
C14_RatiosDefinidos ==
    \A pd \in Producidos : \A i \in 1..Len(pd[2]) :
        /\ pd[2][i].ROI_Acumulado[2] # 0
        /\ pd[2][i].Margen_Bruto[2] # 0
        /\ pd[2][i].Margen_Neto[2] # 0
        /\ IF pd[1].inversion_inicial = 0
              THEN pd[2][i].ROI_Acumulado = <<0, 1>>
              ELSE pd[2][i].ROI_Acumulado =
                      << pd[2][i].Efectivo_Acumulado - pd[1].inversion_inicial * Milli,
                         pd[1].inversion_inicial * Milli >>
        /\ IF pd[2][i].Ingresos_Totales = 0
              THEN /\ pd[2][i].Margen_Bruto = <<0, 1>>
                   /\ pd[2][i].Margen_Neto = <<0, 1>>
              ELSE /\ pd[2][i].Margen_Bruto =
                         << pd[2][i].Utilidad_Bruta, pd[2][i].Ingresos_Totales >>
                   /\ pd[2][i].Margen_Neto =
                         << pd[2][i].Utilidad_Neta, pd[2][i].Ingresos_Totales >>

\* No initial investment, cash moves, and the ROI shown is 0.
C14_Witness ==
    /\ df # Nada /\ cfg.inversion_inicial = 0
    /\ df[1].Efectivo_Acumulado # 0
    /\ df[1].ROI_Acumulado = <<0, 1>>
    /\ df[1].Margen_Neto[1] # 0

\* An investment, and a ROI that is a proper quotient.
C14_WitnessROI ==
    /\ df # Nada /\ cfg.inversion_inicial > 0
    /\ df[1].ROI_Acumulado[1] < 0 /\ df[1].ROI_Acumulado[2] = cfg.inversion_inicial * Milli

\* C17: in every month, total revenue = premium users * premium price + basic
\* users * basic price; fixed cost = personnel cost + total of the fixed
\* costs; variable cost = total users * variable cost per user; total cost =
\* fixed + variable; gross profit = total revenue - total cost (it may be
\* negative).
C17_IngresosYCostos ==
    \A pd \in Producidos : \A i \in 1..Len(pd[2]) :
        /\ pd[2][i].Ingresos_Totales =
              pd[2][i].Usuarios_Premium * pd[1].precio_premium * MilliPerTenth
              + pd[2][i].Usuarios_Basicos * pd[1].precio_basica * MilliPerTenth
        /\ pd[2][i].Costos_Fijos =
              pd[2][i].Costos_Personal
              + (pd[1].costos_fijos.infraestructura + pd[1].costos_fijos.legales
                 + pd[1].costos_fijos.appstore + pd[1].costos_fijos.marketing
                 + pd[1].costos_fijos.otros) * Milli
        /\ pd[2][i].Costos_Variables =
              pd[2][i].Total_Usuarios * pd[1].costo_variable * MilliPerTenth
        /\ pd[2][i].Costos_Totales = pd[2][i].Costos_Fijos + pd[2][i].Costos_Variables
        /\ pd[2][i].Utilidad_Bruta = pd[2][i].Ingresos_Totales - pd[2][i].Costos_Totales

\* A month with both revenues, payroll, variable cost and a negative gross
\* profit, and a later month with a positive one.
C17_Witness ==
    /\ df # Nada /\ Len(df) >= 3
    /\ df[1].Ingresos_Premium > 0 /\ df[1].Ingresos_Basicos > 0
    /\ df[1].Costos_Personal > 0 /\ df[1].Costos_Variables > 0
    /\ df[1].Utilidad_Bruta < 0
    /\ df[3].Utilidad_Bruta > 0

C15_LedgerVigente ==
    /\ df # Nada => df = calcular_proyeccion_financiera(cfg)
    /\ temp_df # Nada => temp_df = calcular_proyeccion_financiera(temp_params)
    /\ reporte # Nada => reporte = BreakEvenText(calcular_proyeccion_financiera(cfg))
    /\ break_even # Nada => break_even = BreakEven(calcular_proyeccion_financiera(cfg))
    /\ riesgo # SinTexto => riesgo = Riesgo(calcular_proyeccion_financiera(cfg), cfg.meses)
    /\ export_df # Nada => export_df = ExportDf(calcular_proyeccion_financiera(cfg))

\* The main call of a second run was made while the store held the ledger of
\* another configuration, stored by the run before.
C15_Witness ==
    /\ corridas = 2 /\ pc = "tab1" /\ llamadas = 1 /\ df # Nada
    /\ \E k \in DOMAIN cache :
          /\ k \in ConfigsCache
          /\ k.costo_variable # cfg.costo_variable
          /\ cache[k] # df

C16_WitnessAcierto ==
    /\ corridas = 2 /\ pc = "done" /\ sensibilidad_param = "Costo Variable"
    /\ \E k \in DOMAIN cache :
          /\ k.precio_premium # cfg.precio_premium
          /\ [k EXCEPT !.precio_premium = cfg.precio_premium] = cfg

\* C18: no step of the sweep changes the base values or the base ledger (nor
\* the break-even and the report computed from it), and what the run ends
\* with, the risk level, the break-even and the exported frame, is computed
\* from the ledger of the base values.
C18_BarridoSinEfecto ==
    [][/\ pc = "sensibilidad" =>
            /\ cfg' = cfg /\ df' = df
            /\ break_even' = break_even /\ reporte' = reporte
       /\ (pc = "tab4" /\ pc' = "sensibilidad") => (cfg' = cfg /\ df' = df)
       /\ pc' = "done" =>
            /\ df' = calcular_proyeccion_financiera(cfg')
            /\ riesgo' = Riesgo(df', cfg'.meses)
            /\ break_even' = BreakEven(df')
            /\ \A i \in 1..Len(df') :
                  \A f \in DOMAIN df'[i] : export_df'[i][f] = df'[i][f]
            /\ Len(export_df') = Len(df')]_vars

\* The run is over, the last sample's parameters and ledger differ from the
\* base ones, and the risk level shown is not the one of the last sample.
C18_Witness ==
    /\ pc = "done" /\ temp_params # cfg /\ temp_df # df
    /\ Len(sensibilidad_results) = NumSamples
    /\ riesgo = "ALTO" /\ Riesgo(temp_df, temp_params.meses) = "BAJO"

\* C19 as stated: the warning is issued exactly when the initial investment is
\* below three months of the payroll the engine charges once every grace
\* period is over (salary * headcount over the team), and a warning alone does
\* not keep the run from its projection.
C19_Original ==
    pc # "validaciones" =>
        /\ (\E i \in 1..Len(warnings) : warnings[i] = WarnInversion) <=>
              (cfg.inversion_inicial * Milli < 3 * SumaNomina(cfg, 1..Len(Equipo)))
        /\ (warnings # <<>> /\ errors = <<>> /\ pc # "calculos") => df # Nada

=============================================================================
